---- MODULE Spec2Model ----
(***************************************************************************)
(* Model of src/app/main.py: the poll -> record -> order -> notify loop of *)
(* run(), with the SQLite table, the Telegram notifier and the remote feed *)
(* as the environment.                                                     *)
(*                                                                         *)
(* Python values: an optional value is a sequence, None == << >> and a     *)
(* present value v == <<v>>.  A raw feed item is a function from the keys  *)
(* it carries to such values; a key the item lacks is outside its DOMAIN.  *)
(***************************************************************************)
EXTENDS Integers, Sequences, FiniteSets, TLC

VARIABLES
    pc,          \* position of run() in its loop
    feedItems,   \* the raw records the remote feed may return (environment)
    limit,       \* LIMIT, the page size asked of the feed
    items,       \* the batch fetched in this cycle
    store,       \* committed rows of table polymarket_activity
    new_rows,    \* rows inserted in this cycle, sorted for delivery
    log,         \* notifier calls made in this cycle, in call order
    err,         \* the exception caught in this cycle, "none" when none
    store0,      \* history: the table when this cycle began
    attempts,    \* history: event-notification calls made per txHash
    failed,      \* history: txHashes whose event notification failed
    prior,       \* history: txHashes recorded before the last restart
    sawTrue,     \* history: txHashes an insert of an earlier cycle observed
                 \*          rowcount = 1 for, committed or rolled back
    insCommit,   \* history: committed inserts with rowcount = 1, per txHash
    writeFailed  \* history: txHashes whose insert raised, until recorded

vars == <<pc, feedItems, limit, items, store, new_rows, log, err, store0,
          attempts, failed, prior, sawTrue, insCommit, writeFailed>>

----------------------------------------------------------------------------
(* Bounds *)

MaxBatch == 2        \* longest batch the feed returns in the main model
MaxOrderBatch == 3   \* longest batch in the delivery-order model
MaxCount == 2        \* history counters saturate here

----------------------------------------------------------------------------
(* Python values *)

None == << >>
Some(v) == <<v>>

\* dict.get(key): the value, None when the key is absent
Get(item, key) == IF key \in DOMAIN item THEN item[key] ELSE None

\* Python truthiness of an optional string and of an optional integer
TruthyStr(v) == v # None /\ v # Some("")
TruthyInt(v) == v # None /\ v # Some(0)

\* a raw item with both keys, or with the timestamp only, or the hash only
Item(tx, ts) == [k \in {"transactionHash", "timestamp"} |->
                    IF k = "transactionHash" THEN tx ELSE ts]
ItemNoTs(tx) == [k \in {"transactionHash"} |-> tx]
ItemNoTx(ts) == [k \in {"timestamp"} |-> ts]

\* txHashes and timestamps of the main model
TxHashes == {"a", "b"}
Timestamps == {1}
\* every hash the history variables are indexed by
Keys == {"", "a", "b", "c"}

\* items of the main model: real events with or without a timestamp, and
\* records whose hash is absent, null or empty
MainItems ==
    {Item(Some(tx), Some(ts)) : tx \in TxHashes, ts \in Timestamps}
    \cup {ItemNoTs(Some(tx)) : tx \in TxHashes}
    \cup {ItemNoTx(Some(1)), Item(None, Some(1)), Item(Some(""), Some(1))}

\* timestamps of the delivery-order model: absent, negative, zero, positive
OrderTimestamps == <<None, Some(-1), Some(0), Some(1)>>
OrderItem(tx, ts) == IF ts = None THEN ItemNoTs(Some(tx)) ELSE Item(Some(tx), ts)

\* sequences over S of length 0..n
SeqsUpTo(S, n) == UNION {[1..k -> S] : k \in 0..n}

Sat(n) == IF n >= MaxCount THEN MaxCount ELSE n

----------------------------------------------------------------------------
(* normalize_item, the insert, the delivery order *)

\* json.dumps(item): the members of the JSON object
Dumps(item) == {<<k, item[k]>> : k \in DOMAIN item}

normalize_item(item) ==
    [transactionHash |-> Get(item, "transactionHash"),
     timestamp       |-> Get(item, "timestamp"),
     raw_json        |-> Dumps(item)]

HasTx(table, tx) == \E r \in table : r.transactionHash = tx
RowsOf(table, k) == {r \in table : r.transactionHash = Some(k)}
TxOf(table) == {k \in Keys : RowsOf(table, k) # {}}

\* a plain INSERT into a table without the primary key
ExecuteAlways(table, row) == [table |-> table \cup {row}, rowcount |-> 1]

\* INSERT OR REPLACE: the stored row gives way to the new one
ExecuteReplace(table, row) ==
    [table |-> {r \in table : r.transactionHash # row.transactionHash} \cup {row},
     rowcount |-> 1]

\* INSERT ... ON CONFLICT (transactionHash) DO NOTHING: the table after it
\* and the statement's rowcount
Execute(table, row) ==
    IF HasTx(table, row.transactionHash)
    THEN [table |-> table, rowcount |-> 0]
    ELSE [table |-> table \cup {row}, rowcount |-> 1]

\* `if tx is None: continue`
SkipOnlyNone(tx) == tx = None

\* `if not tx: continue`
Skip(tx) == ~TruthyStr(tx)

\* the body of `with engine.begin() as conn:` over a batch, from a
\* connection state: the table inside the transaction, new_rows, and the
\* hashes whose insert observed rowcount = 1, in order
RECURSIVE RecordLoop(_, _)
RecordLoop(batch, st) ==
    IF batch = << >> THEN st
    ELSE LET row == normalize_item(Head(batch))
             tx  == row.transactionHash
         IN  IF Skip(tx) THEN RecordLoop(Tail(batch), st)
             ELSE LET res == Execute(st.table, row)
                  IN  RecordLoop(Tail(batch),
                        IF res.rowcount = 1
                        THEN [table    |-> res.table,
                              new_rows |-> Append(st.new_rows, row),
                              obs      |-> Append(st.obs, tx[1])]
                        ELSE [st EXCEPT !.table = res.table])

Conn(table) == [table |-> table, new_rows |-> << >>, obs |-> << >>]

\* a key that puts a missing timestamp below every timestamp of the model
SortKeyMissingLowest(row) ==
    IF row.timestamp = None THEN -2 ELSE row.timestamp[1]

\* key=lambda x: x.get("timestamp") or 0
SortKey(row) == IF TruthyInt(row.timestamp) THEN row.timestamp[1] ELSE 0

\* list.sort is stable: an element goes after every element whose key is
\* not greater
RECURSIVE InsertSorted(_, _)
InsertSorted(sorted, row) ==
    IF sorted = << >> THEN <<row>>
    ELSE IF SortKey(Head(sorted)) <= SortKey(row)
         THEN <<Head(sorted)>> \o InsertSorted(Tail(sorted), row)
         ELSE <<row>> \o sorted

\* new_rows left in fetch order
NoSort(rows) == rows

RECURSIVE SortRows(_)

SortRows(rows) ==
    IF rows = << >> THEN << >>
    ELSE InsertSorted(SortRows(SubSeq(rows, 1, Len(rows) - 1)), rows[Len(rows)])

\* how often key k occurs in a sequence of keys
Count(seq, k) == Cardinality({i \in 1..Len(seq) : seq[i] = k})

\* a build_db that creates the table anew
build_db_drop(table) == {}

\* build_db: create_all leaves an existing table and its rows alone
build_db(table) == table

----------------------------------------------------------------------------
(* The loop of run() *)

Event(row, ok) == [kind |-> "event", row |-> Some(row), ok |-> ok]
Report(ok) == [kind |-> "error", row |-> None, ok |-> ok]

Hist == <<attempts, failed, prior, sawTrue, insCommit, writeFailed>>

NoHist ==
    /\ attempts = [k \in Keys |-> 0]
    /\ failed = {}
    /\ prior = {}
    /\ sawTrue = {}
    /\ insCommit = [k \in Keys |-> 0]
    /\ writeFailed = {}

FreshCycle ==
    /\ pc = "POLLING"
    /\ items = << >>
    /\ new_rows = << >>
    /\ log = << >>
    /\ err = "none"

Init ==
    /\ feedItems = MainItems
    /\ limit = MaxBatch
    /\ store = {}
    /\ store0 = {}
    /\ FreshCycle
    /\ NoHist

\* fetch_activity returned a list
PollOk ==
    /\ pc = "POLLING"
    /\ \E data \in SeqsUpTo(feedItems, limit) : items' = data
    /\ pc' = "RECORDING"
    /\ UNCHANGED <<feedItems, limit, store, new_rows, log, err, store0, Hist>>

\* as PollFail, with the exception swallowed and nothing reported
PollFail_Swallowed ==
    /\ pc = "POLLING"
    /\ \E kind \in {"fetch", "shape"} : err' = kind
    /\ pc' = "SLEEPING"
    /\ UNCHANGED <<feedItems, limit, items, store, new_rows, log, store0, Hist>>

\* fetch_activity raised: the request or raise_for_status ("fetch"), or
\* the response was not a list ("shape")
PollFail ==
    /\ pc = "POLLING"
    /\ \E kind \in {"fetch", "shape"} : err' = kind
    /\ pc' = "ERROR_REPORT"
    /\ UNCHANGED <<feedItems, limit, items, store, new_rows, log, store0, Hist>>

\* as RecordOk, on a connection that is closed without a commit
RecordOk_NoCommit ==
    /\ pc = "RECORDING"
    /\ new_rows' = SortRows(RecordLoop(items, Conn(store)).new_rows)
    /\ pc' = "DELIVERING"
    /\ UNCHANGED <<feedItems, limit, items, store, log, err, store0, Hist>>

\* the transaction ran over the whole batch and committed; new_rows sorted
RecordOk ==
    /\ pc = "RECORDING"
    /\ LET st == RecordLoop(items, Conn(store))
       IN  /\ store' = st.table
           /\ new_rows' = SortRows(st.new_rows)
           /\ insCommit' = [k \in Keys |-> Sat(insCommit[k] + Count(st.obs, k))]
    /\ pc' = "DELIVERING"
    /\ UNCHANGED <<feedItems, limit, items, log, err, store0,
                   attempts, failed, prior, sawTrue, writeFailed>>

\* as RecordFail, on a connection that commits every statement
RecordFail_NoRollback ==
    /\ pc = "RECORDING"
    /\ \E k \in 1..Len(items) :
          LET tx == normalize_item(items[k]).transactionHash
              st == RecordLoop(SubSeq(items, 1, k - 1), Conn(store))
          IN  /\ ~Skip(tx)
              /\ new_rows' = st.new_rows
              /\ store' = st.table
              /\ insCommit' = [j \in Keys |-> Sat(insCommit[j] + Count(st.obs, j))]
              /\ writeFailed' = IF HasTx(st.table, tx) THEN writeFailed
                                ELSE writeFailed \cup {tx[1]}
    /\ err' = "store"
    /\ pc' = "ERROR_REPORT"
    /\ UNCHANGED <<feedItems, limit, items, log, store0,
                   attempts, failed, prior, sawTrue>>

\* conn.execute raised on the k-th item: the transaction is rolled back
RecordFail ==
    /\ pc = "RECORDING"
    /\ \E k \in 1..Len(items) :
          LET tx == normalize_item(items[k]).transactionHash
              st == RecordLoop(SubSeq(items, 1, k - 1), Conn(store))
          IN  /\ ~Skip(tx)
              /\ new_rows' = st.new_rows
              /\ writeFailed' = IF HasTx(st.table, tx) THEN writeFailed
                                ELSE writeFailed \cup {tx[1]}
    /\ err' = "store"
    /\ pc' = "ERROR_REPORT"
    /\ UNCHANGED <<feedItems, limit, items, store, log, store0,
                   attempts, failed, prior, sawTrue, insCommit>>

\* the commit at the end of the `with` block raised: nothing is committed
CommitFail ==
    /\ pc = "RECORDING"
    /\ LET st == RecordLoop(items, Conn(store))
       IN  /\ new_rows' = st.new_rows
    /\ err' = "commit"
    /\ pc' = "ERROR_REPORT"
    /\ UNCHANGED <<feedItems, limit, items, store, log, store0,
                   attempts, failed, prior, sawTrue, insCommit, writeFailed>>

\* the hashes whose insert observed rowcount = 1 in this cycle
NewTx == {new_rows[i].transactionHash[1] : i \in 1..Len(new_rows)}

\* the row the delivery loop is at
Current == new_rows[Len(log) + 1]

\* telegram_send for the current row returned
NotifyOk ==
    /\ pc = "DELIVERING"
    /\ Len(log) < Len(new_rows)
    /\ log' = Append(log, Event(Current, TRUE))
    /\ attempts' = [attempts EXCEPT ![Current.transactionHash[1]] = Sat(@ + 1)]
    /\ UNCHANGED <<pc, feedItems, limit, items, store, new_rows, err, store0,
                   failed, prior, sawTrue, insCommit, writeFailed>>

\* as NotifyFail, with the delivery loop inside the transaction
NotifyFail_Rollback ==
    /\ pc = "DELIVERING"
    /\ Len(log) < Len(new_rows)
    /\ log' = Append(log, Event(Current, FALSE))
    /\ attempts' = [attempts EXCEPT ![Current.transactionHash[1]] = Sat(@ + 1)]
    /\ failed' = failed \cup {Current.transactionHash[1]}
    /\ err' = "notify"
    /\ pc' = "ERROR_REPORT"
    /\ store' = store0
    /\ UNCHANGED <<feedItems, limit, items, new_rows, store0,
                   prior, sawTrue, insCommit, writeFailed>>

\* telegram_send for the current row raised: the loop is left
NotifyFail ==
    /\ pc = "DELIVERING"
    /\ Len(log) < Len(new_rows)
    /\ log' = Append(log, Event(Current, FALSE))
    /\ attempts' = [attempts EXCEPT ![Current.transactionHash[1]] = Sat(@ + 1)]
    /\ failed' = failed \cup {Current.transactionHash[1]}
    /\ err' = "notify"
    /\ pc' = "ERROR_REPORT"
    /\ UNCHANGED <<feedItems, limit, items, store, new_rows, store0,
                   prior, sawTrue, insCommit, writeFailed>>

\* the delivery loop ran out of rows
DeliverDone ==
    /\ pc = "DELIVERING"
    /\ Len(log) = Len(new_rows)
    /\ pc' = "SLEEPING"
    /\ UNCHANGED <<feedItems, limit, items, store, new_rows, log, err, store0, Hist>>

\* except Exception: the report was sent
ErrorReportOk ==
    /\ pc = "ERROR_REPORT"
    /\ log' = Append(log, Report(TRUE))
    /\ pc' = "SLEEPING"
    /\ UNCHANGED <<feedItems, limit, items, store, new_rows, err, store0, Hist>>

\* as ErrorReportFail, without the inner try: run() ends
ErrorReportFail_Raised ==
    /\ pc = "ERROR_REPORT"
    /\ log' = Append(log, Report(FALSE))
    /\ pc' = "EXITED"
    /\ UNCHANGED <<feedItems, limit, items, store, new_rows, err, store0, Hist>>

\* as ErrorReportFail, with the report tried again
ErrorReportFail_Retry ==
    /\ pc = "ERROR_REPORT"
    /\ log' = Append(log, Report(FALSE))
    /\ UNCHANGED <<pc, feedItems, limit, items, store, new_rows, err, store0, Hist>>

\* except Exception: the report raised too, `except Exception: pass`
ErrorReportFail ==
    /\ pc = "ERROR_REPORT"
    /\ log' = Append(log, Report(FALSE))
    /\ pc' = "SLEEPING"
    /\ UNCHANGED <<feedItems, limit, items, store, new_rows, err, store0, Hist>>

\* asyncio.sleep returned: the next iteration of `while True`
Sleep ==
    /\ pc = "SLEEPING"
    /\ pc' = "POLLING"
    /\ items' = << >>
    /\ new_rows' = << >>
    /\ log' = << >>
    /\ err' = "none"
    /\ store0' = store
    /\ writeFailed' = writeFailed \ TxOf(store)
    /\ sawTrue' = sawTrue \cup NewTx
    /\ UNCHANGED <<feedItems, limit, store, attempts, failed, prior, insCommit>>

\* the process is killed and started again on the same DB_PATH
Restart ==
    /\ store' = build_db(store)
    /\ store0' = store'
    /\ prior' = prior \cup TxOf(store)
    /\ writeFailed' = writeFailed \ TxOf(store)
    /\ pc' = "POLLING"
    /\ items' = << >>
    /\ new_rows' = << >>
    /\ log' = << >>
    /\ err' = "none"
    /\ sawTrue' = sawTrue \cup NewTx
    /\ UNCHANGED <<feedItems, limit, attempts, failed, insCommit>>

NextRun ==
    \/ PollOk
    \/ PollFail
    \/ RecordOk
    \/ RecordFail
    \/ CommitFail
    \/ NotifyOk
    \/ NotifyFail
    \/ DeliverDone
    \/ ErrorReportOk
    \/ ErrorReportFail
    \/ Sleep

Next == NextRun \/ Restart

Spec == Init /\ [][Next]_vars

\* the delivery-order model: three events a, b, c, each with any timestamp
\* (up to renaming the hashes: a batch lists them in any order)
InitOrder ==
    /\ \E i, j, k \in DOMAIN OrderTimestamps :
          /\ i <= j /\ j <= k
          /\ feedItems = {OrderItem("a", OrderTimestamps[i]),
                          OrderItem("b", OrderTimestamps[j]),
                          OrderItem("c", OrderTimestamps[k])}
    /\ limit = MaxOrderBatch
    /\ store = {}
    /\ store0 = {}
    /\ FreshCycle
    /\ NoHist

\* ... with the feed and the table working, the notifier failing or not
NextOrder ==
    \/ PollOk
    \/ RecordOk
    \/ NotifyOk
    \/ NotifyFail
    \/ DeliverDone
    \/ ErrorReportOk
    \/ ErrorReportFail
    \/ Sleep

SpecOrder == InitOrder /\ [][NextOrder]_vars

\* the loop left alone by the operator, on pages one record shorter: every
\* step of run() that can be taken is taken in the end (an await returns or
\* raises, the sleep ends)
InitFair ==
    /\ feedItems = MainItems
    /\ limit = MaxBatch - 1
    /\ store = {}
    /\ store0 = {}
    /\ FreshCycle
    /\ NoHist

FairSpec == InitFair /\ [][NextRun]_vars /\ WF_vars(NextRun)

----------------------------------------------------------------------------
(* Vocabulary of the claims *)

\* the usable hashes of the fetched batch
FetchedTx == {k \in Keys \ {""} :
                \E i \in 1..Len(items) : Get(items[i], "transactionHash") = Some(k)}

\* the transaction of this cycle committed
Committed ==
    \/ pc = "DELIVERING"
    \/ pc \in {"ERROR_REPORT", "SLEEPING"} /\ err \in {"none", "notify"}

\* the notifier calls of this cycle that carried an event
EventLog == SelectSeq(log, LAMBDA e : e.kind = "event")
ReportLog == SelectSeq(log, LAMBDA e : e.kind = "error")

\* an event notification for hash k was attempted / delivered in this cycle
Attempted(k) == \E j \in 1..Len(EventLog) :
                    EventLog[j].row[1].transactionHash = Some(k)
Delivered(k) == \E j \in 1..Len(EventLog) :
                    /\ EventLog[j].row[1].transactionHash = Some(k)
                    /\ EventLog[j].ok

\* where a row's event first stands in the fetched batch
FetchPos(row) == CHOOSE i \in 1..Len(items) :
                    /\ Get(items[i], "transactionHash") = row.transactionHash
                    /\ \A j \in 1..(i - 1) :
                          Get(items[j], "transactionHash") # row.transactionHash

----------------------------------------------------------------------------
(* C1: over cycles whose polls overlap, the store holds exactly one record *)
(* for each txHash a committed batch carried, never two, and at most one   *)
(* event notification is ever sent for a txHash.                           *)
C1_OneRecordOneNotification ==
    \A k \in Keys :
        /\ Cardinality(RowsOf(store, k)) <= 1
        /\ attempts[k] <= 1
        /\ (Committed /\ k \in FetchedTx) => Cardinality(RowsOf(store, k)) = 1

\* a hash recorded and notified in an earlier cycle is fetched again and
\* the cycle has run to its end
C1_Witness ==
    /\ pc = "SLEEPING" /\ err = "none"
    /\ \E k \in FetchedTx : k \in TxOf(store0) /\ attempts[k] = 1

(* C2: a notifier failure on one event does not prevent the attempt for    *)
(* the following events of the batch: when the failed cycle ends, every    *)
(* newly recorded event has had its notification attempted.                *)
C2_FollowingStillAttempted ==
    (pc = "SLEEPING" /\ err = "notify") =>
        \A i \in 1..Len(new_rows) : Attempted(new_rows[i].transactionHash[1])

(* C3: the event notifications of one cycle go out in non-decreasing       *)
(* timestamp, events of equal timestamp in their fetch order.              *)
C3_DeliveryOrder ==
    \A i, j \in 1..Len(EventLog) :
        i < j =>
            LET ri == EventLog[i].row[1]
                rj == EventLog[j].row[1]
            IN  /\ (ri.timestamp # None /\ rj.timestamp # None)
                      => ri.timestamp[1] <= rj.timestamp[1]
                /\ ri.timestamp = rj.timestamp => FetchPos(ri) < FetchPos(rj)

\* a batch fetched with timestamps 1, -1, 0 went out as -1, 0, 1
C3_Witness ==
    /\ pc = "SLEEPING" /\ err = "none"
    /\ Len(items) = 3
    /\ Get(items[1], "timestamp") = Some(1)
    /\ Get(items[2], "timestamp") = Some(-1)
    /\ Get(items[3], "timestamp") = Some(0)
    /\ Len(EventLog) = 3
    /\ EventLog[1].row[1].timestamp = Some(-1)
    /\ EventLog[2].row[1].timestamp = Some(0)
    /\ EventLog[3].row[1].timestamp = Some(1)

(* C4: the loop has no terminal state: it never exits, a cycle in which an *)
(* error was caught reaches SLEEPING, and POLLING always comes again.      *)
C4_LoopNeverExits ==
    /\ [](pc # "EXITED")
    /\ [](err # "none" => <>(pc = "SLEEPING"))
    /\ []<>(pc = "POLLING")

\* a cycle whose error report failed too is asleep
C4_Witness ==
    /\ pc = "SLEEPING"
    /\ err # "none"
    /\ log # << >> /\ log[Len(log)] = Report(FALSE)

(* C5: after a restart, a txHash recorded in a prior run keeps its one     *)
(* record, is not inserted again and gets no notification.                 *)
C5_NoReinsertAfterRestart ==
    \A k \in prior :
        /\ Cardinality(RowsOf(store, k)) = 1
        /\ k \notin NewTx
        /\ ~Attempted(k)

\* a hash of a prior run was fetched again and the cycle has run to its end
C5_Witness ==
    /\ pc = "SLEEPING" /\ err = "none"
    /\ \E k \in prior : k \in FetchedTx

(* C6, as claimed: among all the inserts made for a txHash exactly one     *)
(* observes rowcount = 1, so no insert observes it for a hash an insert    *)
(* of an earlier cycle observed it for, and the table has one row a hash.  *)
C6_OneInsertedEver ==
    /\ \A k \in NewTx : k \notin sawTrue
    /\ \A k \in Keys : Cardinality(RowsOf(store, k)) <= 1

(* C6, amended: among the inserts of transactions that commit, exactly one *)
(* observes rowcount = 1 for a txHash; every other one leaves the table as *)
(* it was, and the table holds exactly one row for the hash.               *)
C6_OneInsertedCommitted ==
    /\ \A k \in Keys :
          /\ insCommit[k] = Cardinality(RowsOf(store, k))
          /\ insCommit[k] <= 1
          /\ (Committed /\ k \in FetchedTx) => insCommit[k] = 1
    /\ store0 \subseteq store
    /\ Committed =>
          store = store0 \cup {new_rows[i] : i \in 1..Len(new_rows)}

\* an insert of a rolled-back transaction observed rowcount = 1 for a hash,
\* a later cycle committed it, and it is inserted again in this cycle
C6_Witness ==
    /\ pc = "DELIVERING"
    /\ \E k \in FetchedTx :
          k \in sawTrue /\ k \in TxOf(store0) /\ k \notin NewTx

(* C7: a feed failure during POLLING gives exactly one error report        *)
(* through the notifier, no store write and no event notification in that  *)
(* cycle, and the sleep is followed by a fresh POLLING on the same store.  *)
C7_FetchFailureIsolated ==
    [][ /\ (pc' = "SLEEPING" /\ err' \in {"fetch", "shape"}) =>
              /\ Len(log') = 1 /\ log'[1].kind = "error"
              /\ store' = store0'
              /\ new_rows' = << >>
        /\ (pc = "SLEEPING" /\ err \in {"fetch", "shape"}) =>
              /\ pc' = "POLLING" /\ err' = "none"
              /\ log' = << >> /\ items' = << >> /\ new_rows' = << >>
              /\ store' = store
      ]_vars

\* the feed answered with something that is no list, the report went out
C7_Witness ==
    /\ pc = "SLEEPING" /\ err = "shape"
    /\ log = <<Report(TRUE)>>

(* C8: a fetched record with no txHash (absent, null or empty) is never    *)
(* written and never notified, and does not abort the cycle: in a cycle    *)
(* that ran to its end every other record of the batch is recorded and, if *)
(* new, notified.                                                          *)
C8_MissingHashSkipped ==
    /\ \A r \in store : TruthyStr(r.transactionHash)
    /\ \A i \in 1..Len(new_rows) : TruthyStr(new_rows[i].transactionHash)
    /\ attempts[""] = 0
    /\ (pc = "SLEEPING" /\ err = "none") =>
          \A k \in FetchedTx :
              /\ k \in TxOf(store)
              /\ k \notin TxOf(store0) => Delivered(k)

\* a record without a usable hash came first, the new event after it was
\* recorded and notified
C8_Witness ==
    /\ pc = "SLEEPING" /\ err = "none"
    /\ Len(items) = 2
    /\ ~TruthyStr(Get(items[1], "transactionHash"))
    /\ \E k \in FetchedTx : k \notin TxOf(store0) /\ Delivered(k)

(* C9: a notification failure never undoes recording and is never         *)
(* retried: the event whose notification failed keeps its record, so does  *)
(* every event recorded in that cycle, and no second notification is ever  *)
(* attempted for it.                                                       *)
C9_FailedNotificationKept ==
    /\ \A k \in failed :
          /\ Cardinality(RowsOf(store, k)) = 1
          /\ attempts[k] = 1
          /\ (err # "notify") => ~Attempted(k)
    /\ err = "notify" => \A i \in 1..Len(new_rows) : new_rows[i] \in store

\* an event whose notification failed in an earlier cycle was fetched again
\* and the cycle has run to its end
C9_Witness ==
    /\ pc = "SLEEPING" /\ err = "none"
    /\ \E k \in failed : k \in FetchedTx /\ k \in TxOf(store0)

(* C10, as claimed: a store write failure is fatal to the one event only:  *)
(* that event is unrecorded and the other events of the batch are          *)
(* recorded, earlier records are unchanged, and an event whose write       *)
(* failed is recorded, and notified by the end of the cycle, in a later    *)
(* cycle that fetches it again and in which its own write succeeds.        *)
C10_FatalToOneEvent ==
    /\ err = "store" =>
          \A k \in FetchedTx : k \notin writeFailed => k \in TxOf(store)
    /\ store0 \subseteq store
    /\ \A k \in writeFailed :
          (k \in NewTx /\ pc = "SLEEPING") =>
              k \in TxOf(store) /\ Delivered(k)

(* C10, amended: a store write failure is fatal to the whole batch of that *)
(* cycle: the table is left as the cycle found it and no event is notified *)
(* in that cycle; earlier records are unchanged; an event whose write      *)
(* failed is recorded, and queued for notification, in a later cycle that  *)
(* fetches it again and whose transaction commits, and it is notified when *)
(* that cycle ends without an error.                                       *)
C10_FatalToBatch ==
    /\ err \in {"store", "commit"} => store = store0 /\ EventLog = << >>
    /\ store0 \subseteq store
    /\ \A k \in writeFailed :
          (Committed /\ k \in FetchedTx) =>
              /\ k \in TxOf(store)
              /\ k \in NewTx
              /\ (pc = "SLEEPING" /\ err = "none") => Delivered(k)

\* an event whose write failed in an earlier cycle was fetched again,
\* recorded and notified
C10_Witness ==
    /\ pc = "SLEEPING" /\ err = "none"
    /\ \E k \in writeFailed : k \in NewTx /\ Delivered(k)

(* C11: a notification failure is reported nowhere further: once the       *)
(* notifier has failed on an event, no other notifier call, no error       *)
(* report about it, is made in that cycle.                                 *)
C11_FailureNotReported ==
    err = "notify" => ReportLog = << >>

(* C12: an event is never delivered before it is recorded: every event     *)
(* notification of a cycle is for a committed row, the whole batch is      *)
(* committed before the first notification goes out, and the inserts of a  *)
(* batch are made in fetch order.                                          *)
C12_RecordedBeforeDelivered ==
    /\ \A j \in 1..Len(EventLog) : EventLog[j].row[1] \in store
    /\ EventLog # << >> => \A i \in 1..Len(new_rows) : new_rows[i] \in store
    /\ pc = "DELIVERING" => \A i \in 1..Len(new_rows) : new_rows[i] \in store
    /\ err \in {"store", "commit"} =>
          \A i, j \in 1..Len(new_rows) :
              i < j => FetchPos(new_rows[i]) < FetchPos(new_rows[j])

\* the first of two new events has been notified, the second is recorded
\* and waits
C12_Witness ==
    /\ pc = "DELIVERING"
    /\ Len(new_rows) = 2
    /\ Len(EventLog) = 1
    /\ new_rows[2] \in store /\ new_rows[2] \notin store0

(* C13: stored records are immutable and never deleted: every row of the   *)
(* table is still there, as it was written, after any step, also when a    *)
(* poll returns its txHash with other field values.                        *)
C13_RecordsImmutable ==
    [][ /\ \A r \in store : r \in store'
        /\ \A k \in Keys : Cardinality(RowsOf(store', k)) <= 1 ]_vars

\* a stored hash came back with other field values, the cycle ran to its
\* end and the row is the one the cycle found
C13_Witness ==
    /\ pc = "SLEEPING" /\ err = "none"
    /\ \E i \in 1..Len(items) :
          LET row == normalize_item(items[i])
          IN  /\ TruthyStr(row.transactionHash)
              /\ HasTx(store0, row.transactionHash)
              /\ row \notin store0
              /\ row \notin store

(* C14, as claimed: a missing timestamp is the lowest value: no event that *)
(* has a timestamp, whatever it is, goes out before an event of the same   *)
(* cycle that has none.                                                    *)
C14_MissingFirst ==
    \A i, j \in 1..Len(EventLog) :
        i < j => ~(/\ EventLog[i].row[1].timestamp # None
                   /\ EventLog[j].row[1].timestamp = None)

\* the place of a row in the order when a missing timestamp counts as 0
RankMissingZero(row) == IF row.timestamp = None THEN 0 ELSE row.timestamp[1]

(* C14, amended: a missing timestamp counts as 0: an event without a       *)
(* timestamp goes out after the events with a negative timestamp, before   *)
(* those with a positive one, and in fetch order among the events with     *)
(* timestamp 0 or none.                                                    *)
C14_MissingIsZero ==
    \A i, j \in 1..Len(EventLog) :
        i < j =>
            LET ri == EventLog[i].row[1]
                rj == EventLog[j].row[1]
            IN  /\ RankMissingZero(ri) <= RankMissingZero(rj)
                /\ RankMissingZero(ri) = RankMissingZero(rj)
                      => FetchPos(ri) < FetchPos(rj)

\* an event without a timestamp went out between one of timestamp -1 and
\* one of timestamp 1, fetched in another order
C14_Witness ==
    /\ pc = "SLEEPING" /\ err = "none"
    /\ Len(items) = 3
    /\ Get(items[1], "timestamp") = None
    /\ Get(items[2], "timestamp") = Some(1)
    /\ Get(items[3], "timestamp") = Some(-1)
    /\ Len(EventLog) = 3
    /\ EventLog[1].row[1].timestamp = Some(-1)
    /\ EventLog[2].row[1].timestamp = None
    /\ EventLog[3].row[1].timestamp = Some(1)

(* C15: the error report is best-effort and bounded: a cycle makes at most *)
(* one error-report call, only for an error it caught; whether the call    *)
(* returned or raised, it is the last notifier call of the cycle, the loop *)
(* has not exited and the cycle is asleep.                                 *)
C15_OneReportThenSleep ==
    /\ Len(ReportLog) <= 1
    /\ ReportLog # << >> =>
          /\ pc = "SLEEPING"
          /\ err # "none"
          /\ log[Len(log)].kind = "error"
    /\ pc # "EXITED"

\* the insert raised, the report about it raised too, the cycle is asleep
C15_Witness ==
    /\ pc = "SLEEPING" /\ err = "store"
    /\ log = <<Report(FALSE)>>

(* C16: recording a batch is all-or-nothing: in a cycle in which an insert *)
(* raised, the table is as the cycle found it, the rows inserted before    *)
(* the failure are gone too, and no event notification is sent.            *)
C16_AllOrNothing ==
    err = "store" =>
        /\ store = store0
        /\ \A i \in 1..Len(new_rows) : new_rows[i] \notin store
        /\ \A e \in {log[j] : j \in 1..Len(log)} : e.kind = "error"

\* an insert of the batch had gone through before another one raised; the
\* cycle is asleep
C16_Witness ==
    /\ pc = "SLEEPING" /\ err = "store"
    /\ new_rows # << >>
    /\ Len(items) = 2

\* the first record of the batch that carries hash k
FirstOf(k) == normalize_item(items[
    CHOOSE i \in 1..Len(items) :
        /\ Get(items[i], "transactionHash") = Some(k)
        /\ \A j \in 1..(i - 1) : Get(items[j], "transactionHash") # Some(k)])

(* C17: when one response carries a txHash more than once, only its first  *)
(* occurrence is inserted and collected: the stored row and the one        *)
(* notification are the first occurrence's, the later ones write and       *)
(* notify nothing.                                                         *)
C17_FirstOccurrenceWins ==
    Committed =>
        \A k \in FetchedTx :
            LET mine == {i \in 1..Len(new_rows) :
                            new_rows[i].transactionHash = Some(k)}
                sent == {j \in 1..Len(EventLog) :
                            EventLog[j].row[1].transactionHash = Some(k)}
            IN  IF k \in TxOf(store0)
                THEN mine = {} /\ sent = {}
                ELSE /\ RowsOf(store, k) = {FirstOf(k)}
                     /\ Cardinality(mine) = 1
                     /\ \A i \in mine : new_rows[i] = FirstOf(k)
                     /\ Cardinality(sent) <= 1
                     /\ \A j \in sent : EventLog[j].row[1] = FirstOf(k)

\* one response carried a new hash twice with different fields; the first
\* was recorded and notified
C17_Witness ==
    /\ pc = "SLEEPING" /\ err = "none"
    /\ Len(items) = 2
    /\ items[1] # items[2]
    /\ TruthyStr(Get(items[1], "transactionHash"))
    /\ Get(items[1], "transactionHash") = Get(items[2], "transactionHash")
    /\ Len(EventLog) = 1
    /\ EventLog[1] = Event(normalize_item(items[1]), TRUE)
    /\ store = store0 \cup {normalize_item(items[1])}

====
